---- MODULE Spec2Model ----
(***************************************************************************)
(* Request approval and stock mutation of the warehouse server             *)
(* (src/src/App.tsx, the Express handlers; schema in src/unnamed/part_004).*)
(* The persistent store is the state: the tables items, requests,          *)
(* request_items and stock_history.  request_items and stock_history hold  *)
(* their rows in the order of their ids (SERIAL), the rows a transaction   *)
(* has inserted and not committed among them.                              *)
(*                                                                         *)
(* Of the rows, the columns the handlers compute with are kept: quantity,  *)
(* minQuantity, status and isActive of an item, status of a request, the   *)
(* six columns of a stock_history row that describe the change.  Item ids  *)
(* are SERIAL (the position in items); request ids are fresh (uuid) and    *)
(* never given out twice.                                                  *)
(*                                                                         *)
(* A handler awaits each of its statements, and the statements of other    *)
(* handlers run between them: a step of the model is one statement of one  *)
(* handler.  clients holds the handlers that are running, each with the    *)
(* statement it is at and what it has read; a handler of one statement     *)
(* (POST /api/items, DELETE /api/items/:id, DELETE /api/requests/:id,      *)
(* GET /api/items/:id) is one step.  A statement that throws is a step of  *)
(* its own.  last and calls record the answer that was given last and the  *)
(* number of calls answered; they are not part of the store.               *)
(*                                                                         *)
(* Spec, SpecOk, SpecRequests, SpecPatch, SpecLedger and SpecStatus are    *)
(* the runs in which the caller sends a call after the answer to the one   *)
(* before; SpecTx, SpecCalls, SpecPut, SpecPuts and SpecGet are runs in    *)
(* which two calls are sent at once and their statements alternate.        *)
(***************************************************************************)
EXTENDS Integers, Sequences, FiniteSets, TLC

VARIABLES items, requests, request_items, stock_history, nextRequestId, last, calls,
          clients

vars == <<items, requests, request_items, stock_history, nextRequestId, last, calls,
          clients>>

(***************************************************************************)
(* Bounds of the model.                                                    *)
(***************************************************************************)
\* the number of calls the server handles in a run
MaxCalls == 4
\* the number of rows request_items holds
MaxLines == 2
\* the largest quantity and minQuantity the status functions are compared on
MaxQuantity == 6

\* a field missing from a request body (undefined) or NULL in a column: an
\* integer that no quantity of the model takes
NULL == -2147483647

\* the bodies callers send to POST /api/items: a name (0 stands for any
\* name) with quantity and minQuantity or with neither, and a body with no name
ItemBodies ==
    {[name |-> 0, quantity |-> 3, minQuantity |-> 2],
     [name |-> 0, quantity |-> NULL, minQuantity |-> NULL],
     [name |-> NULL, quantity |-> 3, minQuantity |-> 2]}

\* the bodies POST /api/items accepts
NamedItemBodies == {body \in ItemBodies : body.name # NULL}

\* the fields of a body that PUT /api/items/:id writes to the item; "name"
\* stands for the fields other than quantity and minQuantity
UpdatableFields == {"name", "quantity", "minQuantity"}

\* the bodies callers send to PUT /api/items/:id: any subset of the updatable
\* fields, with or without the notes of the history entry
PutBodies ==
    {<<>>, [notes |-> "n"], [name |-> 0], [quantity |-> -1], [quantity |-> 3, notes |-> "n"],
     [quantity |-> 3, historyNotes |-> "h", notes |-> "n"], [minQuantity |-> 2]}

\* the quantities callers request
RequestedQuantities == {1, 5}
StatusInputs == {"pending", "approved", "rejected", "completed", "bogus"}

Max(a, b) == IF a >= b THEN a ELSE b

Min(a, b) == IF a <= b THEN a ELSE b

\* JavaScript `x || 0` on a number or null
OrZero(x) == IF x = NULL \/ x = 0 THEN 0 ELSE x

(***************************************************************************)
(* Rows of the tables.                                                     *)
(***************************************************************************)
ItemRow(q, m, s, a) == [quantity |-> q, minQuantity |-> m, status |-> s, isActive |-> a]

RequestItemRow(r, i, q) == [request_id |-> r, item_id |-> i, quantity |-> q]

\* xact: the transaction that inserted the row and has not ended, 0 once
\* the row is committed
HistoryRow(i, t, b, c, a, n) ==
    [item_id |-> i, change_type |-> t, quantity_before |-> b,
     quantity_change |-> c, quantity_after |-> a, notes |-> n, xact |-> 0]

\* the note of an approval names the request: `Approved request ${id}`
ApprovedNote(id) == <<"Approved request", id>>

ManualNote == <<"Manual update">>

\* const actualNotes = historyNotes || notes || 'Manual update'
actualNotes(body) ==
    IF "historyNotes" \in DOMAIN body /\ body["historyNotes"] # ""
    THEN <<body["historyNotes"]>>
    ELSE IF "notes" \in DOMAIN body /\ body["notes"] # ""
    THEN <<body["notes"]>>
    ELSE ManualNote

DB(i, r, ri, sh) == [items |-> i, requests |-> r, request_items |-> ri, stock_history |-> sh]

\* the rows of stock_history that are committed, in the order of their ids
History == SelectSeq(stock_history, LAMBDA row : row.xact = 0)

\* the rows of request_items that are committed, in the order of their ids: a
\* line is committed with its request
Lines == SelectSeq(request_items, LAMBDA row : row.request_id \in DOMAIN requests)

\* what a statement reads: the rows that are committed
Committed == DB(items, requests, Lines, History)

\* the answer the server gave last: the handler, the :id and the status of the
\* call, whether it answered with success, failAt (0: no statement threw; -1:
\* pool.connect() threw outside the try, the handler rejected and the call got
\* no answer; f > 0: a statement of a transaction threw after f - 1 of its
\* writing statements had run; of PUT /api/items/:id, 1 the UPDATE, 2 the
\* history INSERT, 3 the SELECT threw), and the status the handler read
\* (oldStatus)
NoCall == [op |-> "none", id |-> 0, status |-> "", ok |-> TRUE, failAt |-> 0, oldStatus |-> ""]

Call(op, id, status, ok, failAt) ==
    [op |-> op, id |-> id, status |-> status, ok |-> ok, failAt |-> failAt, oldStatus |-> ""]

\* the handlers of several statements that run at a time
Clients == {1, 2}

\* no handler: op is the handler that runs, pc the statement it is at, id
\* and status the call it handles, oldStatus and rows what it read (rows of
\* POST /api/requests: the items of the body), s the number of writing
\* statements of its transaction it has run, failAt the statement that threw,
\* log the connect, BEGIN, COMMIT, ROLLBACK and release() it has issued, body
\* and oldQty the body and the quantity a PUT /api/items/:id handler holds
Idle ==
    [op |-> "", pc |-> "idle", id |-> 0, status |-> "", oldStatus |-> "", rows |-> <<>>,
     s |-> 0, ok |-> FALSE, failAt |-> 0, log |-> <<>>, body |-> <<>>, oldQty |-> 0]

\* a handler is between its first statement and its answer
Running(cl) == cl.pc \notin {"idle", "done", "rejected"}

\* no handler is between two of its statements
Quiet == \A c \in Clients : ~Running(clients[c])

\* the calls sent and not answered
InFlight == Cardinality({c \in Clients : Running(clients[c])})

\* a call arrives and its handler starts as c
Starts(c) == ~Running(clients[c]) /\ calls + InFlight < MaxCalls

\* c has handled no call yet
Fresh(c) == clients[c].pc = "idle"

\* res.json(...), res.status(...).json(...), or the rejection of the handler:
\* the call is over
Answer(call) == calls' = calls + 1 /\ last' = call

\* a statement after which the handler goes on
NoAnswer == UNCHANGED <<last, calls>>

\* the call of a handler of one statement
Tick == calls + InFlight < MaxCalls /\ calls' = calls + 1 /\ UNCHANGED clients

Init ==
    /\ items = <<>>
    /\ requests = <<>>
    /\ request_items = <<>>
    /\ stock_history = <<>>
    /\ nextRequestId = 1
    /\ last = NoCall
    /\ calls = 0
    /\ clients = [c \in Clients |-> Idle]

(***************************************************************************)
(* POST /api/items                                                         *)
(***************************************************************************)
\* fail: the INSERT throws for a reason of the store; it throws on a body
\* with no name too (items.name is NOT NULL), and the catch answers 500
PostItemsOk(body, fail) == body.name # NULL /\ ~fail

PostItems(body, fail) ==
    /\ Tick
    /\ items' = IF PostItemsOk(body, fail)
                THEN Append(items, ItemRow(OrZero(body.quantity), OrZero(body.minQuantity),
                                           "in-stock", 1))
                ELSE items
    /\ last' = Call("postItem", Len(items) + 1, "", PostItemsOk(body, fail),
                    IF fail THEN 1 ELSE 0)
    /\ UNCHANGED <<requests, request_items, stock_history, nextRequestId>>

(***************************************************************************)
(* GET /api/items and GET /api/items/:id                                   *)
(* The status of the answer is computed from the row, not read from it.    *)
(***************************************************************************)
readStatusBelowMin(quantity, minQuantity) ==
    IF quantity > 0
    THEN IF quantity < OrZero(minQuantity) THEN "low-stock" ELSE "in-stock"
    ELSE "out-of-stock"

\* item.quantity > 0 ? (item.quantity <= (item["minQuantity"] || 0) ? ... ) : ...
readStatus(quantity, minQuantity) ==
    IF quantity > 0
    THEN IF quantity <= OrZero(minQuantity) THEN "low-stock" ELSE "in-stock"
    ELSE "out-of-stock"

\* the item of an answer (id stands for id.toString())
FormatItem(id, item) ==
    [id |-> id, quantity |-> OrZero(item.quantity), minQuantity |-> OrZero(item.minQuantity),
     status |-> readStatus(item.quantity, item.minQuantity)]

GetItemsOfAll(db) == {FormatItem(i, db.items[i]) : i \in 1..Len(db.items)}

\* SELECT * FROM items WHERE "isActive" = 1 OR "isActive" IS NULL: the items
\* of the answer, which come in no stated order
GetItems(db) ==
    {FormatItem(i, db.items[i]) :
        i \in {j \in 1..Len(db.items) : db.items[j].isActive = 1 \/ db.items[j].isActive = NULL}}

\* GET /api/items/:id: 404 when no row has the id
GetItem(db, id) ==
    IF id \notin 1..Len(db.items)
    THEN [found |-> FALSE, item |-> FormatItem(0, ItemRow(0, 0, "", 0))]
    ELSE [found |-> TRUE, item |-> FormatItem(id, db.items[id])]

\* a call of GET /api/items/:id; last.status is the status of the answer;
\* fail: the SELECT throws and the catch answers 500
GetItemById(id, fail) ==
    /\ Tick
    /\ last' = IF fail THEN Call("getItem", id, "", FALSE, 1)
               ELSE Call("getItem", id, GetItem(Committed, id).item.status,
                         GetItem(Committed, id).found, 0)
    /\ UNCHANGED <<items, requests, request_items, stock_history, nextRequestId>>

(***************************************************************************)
(* The store runs the statements at its default isolation level, READ      *)
(* COMMITTED: a SELECT reads the rows committed when it starts; an UPDATE  *)
(* locks its row until the COMMIT or ROLLBACK of its transaction and waits *)
(* for a row another transaction has locked; what a transaction wrote is   *)
(* seen by the others at its COMMIT.  A statement outside a transaction is *)
(* committed when it ends.                                                 *)
(***************************************************************************)
\* the items the transaction of client c has updated and not committed: their
\* rows are locked.  The store frees the locks of a transaction when it aborts
\* it, at the statement that throws and before the ROLLBACK of the catch
LockedItems(c) ==
    IF clients[c].op # "patchStatus" \/ ~Running(clients[c]) \/ clients[c].pc = "rollback"
    THEN {} ELSE
    {clients[c].rows[(t + 1) \div 2].item_id :
        t \in {u \in 1..Min(clients[c].s, 2 * Len(clients[c].rows)) : u % 2 = 1}}

\* the transaction of client c has updated the row of request id and not
\* committed; an UPDATE that matched no row locks none
LocksRequest(c, id) ==
    /\ clients[c].op = "patchStatus" /\ clients[c].pc = "commit"
    /\ clients[c].id = id
    /\ id \in DOMAIN requests
    /\ clients[c].s = 2 * Len(clients[c].rows) + 1

(***************************************************************************)
(* DELETE /api/items/:id (soft delete)                                     *)
(* fail: the UPDATE throws and the catch answers 500.                      *)
(***************************************************************************)
\* UPDATE items SET "isActive" = 0 WHERE id = $1
Deactivate(its, id) ==
    [i \in 1..Len(its) |-> IF i = id THEN [its[i] EXCEPT !.isActive = 0] ELSE its[i]]

DeleteItemAndHistory(id, fail) ==
    /\ Tick
    /\ fail \/ \A c \in Clients : id \notin LockedItems(c)
    /\ items' = IF fail THEN items ELSE Deactivate(items, id)
    /\ last' = Call("deleteItem", id, "", ~fail, IF fail THEN 1 ELSE 0)
    /\ stock_history' = IF fail THEN stock_history
                        ELSE SelectSeq(stock_history, LAMBDA row : row.item_id # id)
    /\ UNCHANGED <<requests, request_items, nextRequestId>>

\* the UPDATE waits while a transaction holds the lock of the row
DeleteItem(id, fail) ==
    /\ Tick
    /\ fail \/ \A c \in Clients : id \notin LockedItems(c)
    /\ items' = IF fail THEN items ELSE Deactivate(items, id)
    /\ last' = Call("deleteItem", id, "", ~fail, IF fail THEN 1 ELSE 0)
    /\ UNCHANGED <<requests, request_items, stock_history, nextRequestId>>

(***************************************************************************)
(* DELETE /api/requests/:id (request_items cascade)                        *)
(* fail: the DELETE throws and the catch answers 500.  A request that is   *)
(* not committed is not there to delete.                                   *)
(***************************************************************************)
CascadeNothing(ri, id) == ri

\* ON DELETE CASCADE of request_items.request_id
Cascade(ri, id) == SelectSeq(ri, LAMBDA row : row.request_id # id)

\* result.rowCount === 0 is the 404 "Request not found"
DeleteRequest(id, fail) ==
    /\ Tick
    /\ fail \/ \A c \in Clients : ~LocksRequest(c, id)
    /\ requests' = IF fail THEN requests ELSE [r \in DOMAIN requests \ {id} |-> requests[r]]
    /\ request_items' = IF fail \/ id \notin DOMAIN requests
                        THEN request_items
                        ELSE Cascade(request_items, id)
    /\ last' = Call("deleteRequest", id, "", ~fail /\ id \in DOMAIN requests,
                    IF fail THEN 1 ELSE 0)
    /\ UNCHANGED <<items, stock_history, nextRequestId>>

\* the ids callers name: every id ever given out, and one that resolves to nothing
ItemIds == 1..(Len(items) + 1)

RequestIds == 1..nextRequestId

(***************************************************************************)
(* PUT /api/items/:id                                                      *)
(* The handler opens no transaction: its SELECT, its UPDATE and its        *)
(* history INSERT are three statements on the pool, each committed when it *)
(* ends.  The catch answers 500 and undoes nothing.                        *)
(***************************************************************************)
\* UPDATE items SET <fields of the body> WHERE id = $n
UpdateItemFields(its, id, body) ==
    [its EXCEPT ![id] =
        [@ EXCEPT !.quantity = IF "quantity" \in DOMAIN body THEN body["quantity"] ELSE @,
                  !.minQuantity = IF "minQuantity" \in DOMAIN body THEN body["minQuantity"] ELSE @]]

\* quantity !== undefined && quantity !== oldQty
LogsHistory(body, oldQty) == "quantity" \in DOMAIN body /\ body["quantity"] # oldQty

PutHistoryRowAsDelta(id, quantity, oldQty, notes) ==
    HistoryRow(id, IF quantity > 0 THEN "restock" ELSE "adjustment",
               OrZero(oldQty), OrZero(quantity), OrZero(oldQty) + OrZero(quantity), notes)

PutHistoryRow(id, quantity, oldQty, notes) ==
    HistoryRow(id, IF quantity > oldQty THEN "restock" ELSE "adjustment",
               OrZero(oldQty), OrZero(quantity) - OrZero(oldQty), quantity, notes)

PutOkWhenNotFound(id, fail) == fail = 0

\* the answer is not an error: neither 404 "Item not found" nor 500
PutOk(id, fail) == id \in 1..Len(items) /\ fail = 0

\* the handler of PUT /api/items/:id that has answered
PutDone(id, fail) == [Idle EXCEPT !.op = "putItem", !.pc = "done", !.id = id,
                                  !.ok = PutOk(id, fail)]

\* SELECT quantity FROM items WHERE id = $1; 404 when no row has the id; the
\* answer "No updates provided" when the body has none of the fields
PutSelect(c, id, body) ==
    /\ Starts(c)
    /\ IF id \notin 1..Len(items) \/ DOMAIN body \cap UpdatableFields = {}
       THEN /\ clients' = [clients EXCEPT ![c] = PutDone(id, 0)]
            /\ Answer(Call("putItem", id, "", PutOk(id, 0), 0))
       ELSE /\ clients' = [clients EXCEPT ![c] =
                  [Idle EXCEPT !.op = "putItem", !.pc = "putUpdate", !.id = id,
                               !.body = body, !.oldQty = items[id].quantity]]
            /\ NoAnswer
    /\ UNCHANGED <<items, requests, request_items, stock_history, nextRequestId>>

\* the SELECT throws: 500
PutSelectFails(c, id) ==
    /\ Starts(c)
    /\ clients' = [clients EXCEPT ![c] = PutDone(id, 3)]
    /\ Answer(Call("putItem", id, "", PutOk(id, 3), 3))
    /\ UNCHANGED <<items, requests, request_items, stock_history, nextRequestId>>

\* UPDATE items SET <fields of the body> WHERE id = $n RETURNING *: waits
\* while a transaction holds the lock of the row; res.json(updatedItem) when
\* no entry is to be written
PutUpdate(c) ==
    LET cl == clients[c] IN
    /\ cl.pc = "putUpdate"
    /\ \A d \in Clients \ {c} : cl.id \notin LockedItems(d)
    /\ items' = UpdateItemFields(items, cl.id, cl.body)
    /\ IF LogsHistory(cl.body, cl.oldQty)
       THEN /\ clients' = [clients EXCEPT ![c] = [cl EXCEPT !.pc = "putInsert"]]
            /\ NoAnswer
       ELSE /\ clients' = [clients EXCEPT ![c] = PutDone(cl.id, 0)]
            /\ Answer(Call("putItem", cl.id, "", PutOk(cl.id, 0), 0))
    /\ UNCHANGED <<requests, request_items, stock_history, nextRequestId>>

\* INSERT INTO stock_history, with the quantity the SELECT read as
\* quantity_before; res.json(updatedItem)
PutInsertHistory(c) ==
    LET cl == clients[c] IN
    /\ cl.pc = "putInsert"
    /\ stock_history' =
          Append(stock_history,
                 PutHistoryRow(cl.id, cl.body["quantity"], cl.oldQty, actualNotes(cl.body)))
    /\ clients' = [clients EXCEPT ![c] = PutDone(cl.id, 0)]
    /\ Answer(Call("putItem", cl.id, "", PutOk(cl.id, 0), 0))
    /\ UNCHANGED <<items, requests, request_items, nextRequestId>>

\* the UPDATE (1) or the history INSERT (2) throws: 500, and an UPDATE that
\* has run stays
PutFails(c) ==
    LET cl == clients[c]
        fail == IF cl.pc = "putUpdate" THEN 1 ELSE 2
    IN /\ cl.pc \in {"putUpdate", "putInsert"}
       /\ clients' = [clients EXCEPT ![c] = PutDone(cl.id, fail)]
       /\ Answer(Call("putItem", cl.id, "", PutOk(cl.id, fail), fail))
       /\ UNCHANGED <<items, requests, request_items, stock_history, nextRequestId>>

(***************************************************************************)
(* Reads of the lines of a request                                         *)
(***************************************************************************)
\* FROM request_items ri WHERE ri.request_id = $1
LinesOf(ri, id) == SelectSeq(ri, LAMBDA row : row.request_id = id)

\* the orders in which a SELECT without ORDER BY may return n rows
Orders(n) == {p \in [1..n -> 1..n] : \A i, j \in 1..n : p[i] = p[j] => i = j}

\* FROM request_items ri JOIN items i ON ri."item_id" = i.id WHERE
\* ri."request_id" = $1: the lines whose item_id is the id of an item; a line
\* with no item_id joins no item
JoinedLines(db, id) ==
    SelectSeq(LinesOf(db.request_items, id), LAMBDA row : row.item_id \in 1..Len(db.items))

(***************************************************************************)
(* GET /api/requests/:id: two SELECTs on the pool                          *)
(***************************************************************************)
\* SELECT r.* FROM requests r WHERE r.id = $1; 404 when no row has the id
GetSelectRequest(c, id) ==
    /\ Starts(c)
    /\ IF id \notin DOMAIN requests
       THEN /\ clients' = [clients EXCEPT ![c] =
                  [Idle EXCEPT !.op = "getRequest", !.pc = "done", !.id = id]]
            /\ Answer(Call("getRequest", id, "", FALSE, 0))
       ELSE /\ clients' = [clients EXCEPT ![c] =
                  [Idle EXCEPT !.op = "getRequest", !.pc = "getLines", !.id = id,
                               !.status = requests[id].status]]
            /\ NoAnswer
    /\ UNCHANGED <<items, requests, request_items, stock_history, nextRequestId>>

\* SELECT ri.* FROM request_items ri JOIN items i WHERE ri.request_id = $1;
\* res.json({ ...request, items: itemResult.rows }): rows holds the items of
\* the answer
GetSelectLines(c, order) ==
    LET cl == clients[c] IN
    /\ cl.pc = "getLines"
    /\ order \in Orders(Len(JoinedLines(Committed, cl.id)))
    /\ clients' = [clients EXCEPT ![c] =
          [cl EXCEPT !.pc = "done", !.ok = TRUE,
                     !.rows = [k \in 1..Len(JoinedLines(Committed, cl.id)) |->
                                 JoinedLines(Committed, cl.id)[order[k]]]]]
    /\ Answer(Call("getRequest", cl.id, cl.status, TRUE, 0))
    /\ UNCHANGED <<items, requests, request_items, stock_history, nextRequestId>>

\* the first SELECT throws: the catch answers 500
GetSelectRequestFails(c, id) ==
    /\ Starts(c)
    /\ clients' = [clients EXCEPT ![c] =
          [Idle EXCEPT !.op = "getRequest", !.pc = "done", !.id = id, !.failAt = 1]]
    /\ Answer(Call("getRequest", id, "", FALSE, 1))
    /\ UNCHANGED <<items, requests, request_items, stock_history, nextRequestId>>

\* the second SELECT throws: the catch answers 500
GetSelectLinesFails(c) ==
    LET cl == clients[c] IN
    /\ cl.pc = "getLines"
    /\ clients' = [clients EXCEPT ![c] = [cl EXCEPT !.pc = "done", !.failAt = 2]]
    /\ Answer(Call("getRequest", cl.id, cl.status, FALSE, 2))
    /\ UNCHANGED <<items, requests, request_items, stock_history, nextRequestId>>

(***************************************************************************)
(* PATCH /api/requests/:id/status: the statements of the transaction       *)
(***************************************************************************)
\* SELECT ri.item_id, ri.quantity, i.quantity, i."minQuantity" FROM
\* request_items ri JOIN items i ON ri."item_id" = i.id WHERE
\* ri."request_id" = $1
itemsResult(db, id, order) ==
    LET lines == JoinedLines(db, id)
    IN [k \in 1..Len(lines) |->
          [item_id |-> lines[order[k]].item_id,
           requested_qty |-> lines[order[k]].quantity,
           current_qty |-> db.items[lines[order[k]].item_id].quantity,
           minQuantity |-> db.items[lines[order[k]].item_id].minQuantity]]

newQty(item) == Max(0, item.current_qty - item.requested_qty)

itemStatusBelowMin(q, minQuantity) ==
    IF q = 0 THEN "out-of-stock"
    ELSE IF q < OrZero(minQuantity) THEN "low-stock"
    ELSE "in-stock"

itemStatus(q, minQuantity) ==
    IF q = 0 THEN "out-of-stock"
    ELSE IF q <= OrZero(minQuantity) THEN "low-stock"
    ELSE "in-stock"

\* UPDATE items SET quantity = $1, status = $2 WHERE id = $3
UpdateItemStock(its, item) ==
    [its EXCEPT ![item.item_id] =
        [@ EXCEPT !.quantity = newQty(item),
                  !.status = itemStatus(newQty(item), item.minQuantity)]]

\* INSERT INTO stock_history (..., 'request', current_qty, -requested_qty, newQty, note)
RequestHistoryRow(item, id) ==
    HistoryRow(item.item_id, "request", item.current_qty, -item.requested_qty,
               newQty(item), ApprovedNote(id))

RECURSIVE Exec(_, _, _)
\* items after the UPDATEs of the first k rows of the loop
Exec(rows, k, its) ==
    IF k = 0 THEN its ELSE UpdateItemStock(Exec(rows, k - 1, its), rows[k])

\* SELECT status FROM requests WHERE id = $1 ("" when there is no such row)
oldStatus(db, id) == IF id \in DOMAIN db.requests THEN db.requests[id].status ELSE ""

DeductsWithoutGuard(db, id, status) ==
    id \in DOMAIN db.requests /\ status = "approved"

DeductsOnAnyStatus(db, id, status) ==
    id \in DOMAIN db.requests /\ oldStatus(db, id) # "approved"

\* status === "approved" && oldStatus !== "approved"
Deducts(db, id, status) ==
    id \in DOMAIN db.requests /\ status = "approved" /\ oldStatus(db, id) # "approved"

\* the orders the rows of itemsResult may come in
RowOrders(db, id) == Orders(Len(JoinedLines(db, id)))

RequestAlwaysFound(db, id) == FALSE

\* requestResult.rows.length === 0
RequestNotFound(db, id) == id \notin DOMAIN db.requests

\* the statement after s writing statements of the transaction: the UPDATE
\* and the history INSERT of each row, then the UPDATE of the request
AfterStatement(rows, s) ==
    IF s >= 2 * Len(rows) THEN "updateRequest"
    ELSE IF s % 2 = 0 THEN "updateItem" ELSE "insertHistory"

\* the row of the next UPDATE of client c in the loop
NextRow(c) == clients[c].rows[(clients[c].s + 2) \div 2]

\* client c is at an UPDATE of an item whose row client d has locked
WaitsFor(c, d) ==
    /\ c # d
    /\ clients[c].pc = "updateItem"
    /\ NextRow(c).item_id \in LockedItems(d)

\* const client = await db.pool.connect(), with the id and the status of
\* the call
TxConnect(c, id, status) ==
    /\ Starts(c)
    /\ clients' = [clients EXCEPT ![c] = [Idle EXCEPT !.op = "patchStatus", !.pc = "begin",
                                                      !.id = id, !.status = status,
                                                      !.log = <<"connect">>]]
    /\ NoAnswer
    /\ UNCHANGED <<items, requests, request_items, stock_history, nextRequestId>>

\* pool.connect() throws, before the try: the handler op rejects; no client
\* is taken, nothing is answered, no ROLLBACK and no release() are issued
TxConnectFails(c, op) ==
    /\ Starts(c)
    /\ clients' = [clients EXCEPT ![c] = [Idle EXCEPT !.op = op, !.pc = "rejected",
                                                      !.log = <<"connect failed">>]]
    /\ Answer(Call(op, 0, "", FALSE, -1))
    /\ UNCHANGED <<items, requests, request_items, stock_history, nextRequestId>>

\* await client.query('BEGIN')
TxBegin(c) ==
    /\ clients[c].pc = "begin" /\ clients[c].op = "patchStatus"
    /\ clients' = [clients EXCEPT ![c] = [@ EXCEPT !.pc = "selectStatus",
                                                   !.log = @ \o <<"BEGIN">>]]
    /\ NoAnswer
    /\ UNCHANGED <<items, requests, request_items, stock_history, nextRequestId>>

\* BEGIN throws: no transaction begins and the catch runs
TxBeginFails(c) ==
    /\ clients[c].pc = "begin"
    /\ clients' = [clients EXCEPT ![c] = [@ EXCEPT !.pc = "rollback", !.failAt = 1,
                                                   !.log = @ \o <<"BEGIN failed">>]]
    /\ NoAnswer
    /\ UNCHANGED <<items, requests, request_items, stock_history, nextRequestId>>

\* SELECT status FROM requests WHERE id = $1, and the guard of the loop
TxSelectStatus(c) ==
    LET cl == clients[c] IN
    /\ cl.pc = "selectStatus"
    /\ clients' = [clients EXCEPT ![c] =
          IF RequestNotFound(Committed, cl.id)
          THEN [cl EXCEPT !.pc = "rollback"]   \* throw new Error("Request not found")
          ELSE [cl EXCEPT !.oldStatus = oldStatus(Committed, cl.id),
                          !.pc = IF Deducts(Committed, cl.id, cl.status)
                                 THEN "selectItems" ELSE "updateRequest"]]
    /\ NoAnswer
    /\ UNCHANGED <<items, requests, request_items, stock_history, nextRequestId>>

\* SELECT ... FROM request_items ri JOIN items i: the committed quantities
TxSelectItems(c, order) ==
    LET cl == clients[c] IN
    /\ cl.pc = "selectItems"
    /\ order \in RowOrders(Committed, cl.id)
    /\ clients' = [clients EXCEPT ![c] =
          [cl EXCEPT !.rows = itemsResult(Committed, cl.id, order),
                     !.pc = AfterStatement(itemsResult(Committed, cl.id, order), 0)]]
    /\ NoAnswer
    /\ UNCHANGED <<items, requests, request_items, stock_history, nextRequestId>>

\* UPDATE items SET quantity = $1, status = $2 WHERE id = $3: waits while
\* another transaction holds the lock of the row
TxUpdateItem(c) ==
    LET cl == clients[c] IN
    /\ cl.pc = "updateItem"
    /\ \A d \in Clients \ {c} : NextRow(c).item_id \notin LockedItems(d)
    /\ clients' = [clients EXCEPT ![c] =
          [cl EXCEPT !.s = cl.s + 1, !.pc = AfterStatement(cl.rows, cl.s + 1)]]
    /\ NoAnswer
    /\ UNCHANGED <<items, requests, request_items, stock_history, nextRequestId>>

\* INSERT INTO stock_history: the row takes the next id of the table
TxInsertHistory(c) ==
    LET cl == clients[c] IN
    /\ cl.pc = "insertHistory"
    /\ stock_history' =
          Append(stock_history,
                 [RequestHistoryRow(cl.rows[(cl.s + 1) \div 2], cl.id) EXCEPT !.xact = c])
    /\ clients' = [clients EXCEPT ![c] =
          [cl EXCEPT !.s = cl.s + 1, !.pc = AfterStatement(cl.rows, cl.s + 1)]]
    /\ NoAnswer
    /\ UNCHANGED <<items, requests, request_items, nextRequestId>>

\* UPDATE requests SET status = $1 WHERE id = $2: waits while another
\* transaction holds the lock of the row
TxUpdateRequest(c) ==
    LET cl == clients[c] IN
    /\ cl.pc = "updateRequest"
    /\ \A d \in Clients \ {c} : ~LocksRequest(d, cl.id)
    /\ clients' = [clients EXCEPT ![c] = [cl EXCEPT !.s = cl.s + 1, !.pc = "commit"]]
    /\ NoAnswer
    /\ UNCHANGED <<items, requests, request_items, stock_history, nextRequestId>>

(***************************************************************************)
(* POST /api/requests: the statements of the transaction                   *)
(***************************************************************************)
\* the lines callers send: an item and a quantity, or no item_id (the INSERT
\* then stores NULL, which the column takes)
BodyLines ==
    [item_id : 1..Len(items), quantity : RequestedQuantities]
       \cup {[item_id |-> NULL, quantity |-> 1]}

\* the items of the bodies callers send
BodyItems ==
    UNION { [1..n -> BodyLines] : n \in 0..(MaxLines - Len(request_items)) }

\* const client = await db.pool.connect(), and the validation of the body:
\* a body that is refused (400) returns from the try block and the finally
\* releases the client
PostConnect(c, project_name, lines) ==
    /\ Starts(c)
    /\ IF ~project_name \/ Len(lines) = 0
       THEN /\ clients' = [clients EXCEPT ![c] =
                  [Idle EXCEPT !.op = "postRequest", !.pc = "done",
                               !.log = <<"connect", "release">>]]
            /\ Answer(Call("postRequest", 0, "", FALSE, 0))
       ELSE /\ clients' = [clients EXCEPT ![c] =
                  [Idle EXCEPT !.op = "postRequest", !.pc = "begin", !.rows = lines,
                               !.log = <<"connect">>]]
            /\ NoAnswer
    /\ UNCHANGED <<items, requests, request_items, stock_history, nextRequestId>>

\* await client.query('BEGIN'), and the uuid of the request
PostBegin(c) ==
    /\ clients[c].pc = "begin" /\ clients[c].op = "postRequest"
    /\ clients' = [clients EXCEPT ![c] = [@ EXCEPT !.pc = "insertRequest",
                                                   !.id = nextRequestId,
                                                   !.log = @ \o <<"BEGIN">>]]
    /\ nextRequestId' = nextRequestId + 1
    /\ NoAnswer
    /\ UNCHANGED <<items, requests, request_items, stock_history>>

\* INSERT INTO requests (..., status) VALUES (..., 'pending')
PostInsertRequest(c) ==
    /\ clients[c].pc = "insertRequest"
    /\ clients' = [clients EXCEPT ![c] = [@ EXCEPT !.s = 1, !.pc = "insertLine"]]
    /\ NoAnswer
    /\ UNCHANGED <<items, requests, request_items, stock_history, nextRequestId>>

PostInsertLineReserves(c) ==
    LET cl == clients[c]
        line == cl.rows[cl.s]
    IN /\ cl.pc = "insertLine"
       /\ line.item_id = NULL \/ line.item_id \in 1..Len(items)
       /\ request_items' = Append(request_items,
                                  RequestItemRow(cl.id, line.item_id, line.quantity))
       /\ items' = [i \in 1..Len(items) |->
                       IF i = line.item_id THEN [items[i] EXCEPT !.quantity = 0] ELSE items[i]]
       /\ clients' = [clients EXCEPT ![c] =
             [cl EXCEPT !.s = cl.s + 1,
                        !.pc = IF cl.s = Len(cl.rows) THEN "commit" ELSE "insertLine"]]
       /\ NoAnswer
       /\ UNCHANGED <<requests, stock_history, nextRequestId>>

\* INSERT INTO request_items (request_id, item_id, quantity), for the next
\* item of the body: the row takes the next id of the table; an item_id that
\* is the id of no item violates the foreign key and the statement throws
PostInsertLine(c) ==
    LET cl == clients[c]
        line == cl.rows[cl.s]
    IN /\ cl.pc = "insertLine"
       /\ line.item_id = NULL \/ line.item_id \in 1..Len(items)
       /\ request_items' = Append(request_items,
                                  RequestItemRow(cl.id, line.item_id, line.quantity))
       /\ clients' = [clients EXCEPT ![c] =
             [cl EXCEPT !.s = cl.s + 1,
                        !.pc = IF cl.s = Len(cl.rows) THEN "commit" ELSE "insertLine"]]
       /\ NoAnswer
       /\ UNCHANGED <<items, requests, stock_history, nextRequestId>>

(***************************************************************************)
(* The end of a transaction: COMMIT publishes what it wrote, the ROLLBACK  *)
(* of the catch discards it.  The UPDATEs of a PATCH transaction are kept  *)
(* as the statements it has run (rows, s) and applied to items and         *)
(* requests at COMMIT: the rows are locked till then and no statement      *)
(* reads what is not committed.  The rows it inserts are in stock_history  *)
(* and request_items from their INSERT.  The ROLLBACK of the catch may     *)
(* throw too (the connection is lost): the handler then rejects with no    *)
(* answer, the finally releases the client, and the store discards what    *)
(* the session has not committed.                                          *)
(***************************************************************************)
\* the statements of the try block a handler awaits
TxStatements ==
    {"selectStatus", "selectItems", "updateItem", "insertHistory", "updateRequest",
     "insertRequest", "insertLine"}

\* the number of UPDATEs of items the transaction of client cl has run
Updates(cl) == (Min(cl.s, 2 * Len(cl.rows)) + 1) \div 2

\* the store with what the transaction of client c has written, committed
Work(c) ==
    LET cl == clients[c] IN
    DB(IF cl.op = "patchStatus" THEN Exec(cl.rows, Updates(cl), items) ELSE items,
       IF cl.op = "postRequest" /\ cl.s >= 1
       THEN requests @@ (cl.id :> [status |-> "pending"])
       ELSE IF cl.op = "patchStatus" /\ cl.s = 2 * Len(cl.rows) + 1 /\ cl.id \in DOMAIN requests
       THEN [requests EXCEPT ![cl.id].status = cl.status]
       ELSE requests,
       request_items,
       [k \in 1..Len(stock_history) |->
          [stock_history[k] EXCEPT !.xact = IF @ = c THEN 0 ELSE @]])

PreKeepsLines(c) ==
    DB(items, requests, request_items, SelectSeq(stock_history, LAMBDA row : row.xact # c))

\* the store without it
Pre(c) ==
    DB(items, requests,
       IF clients[c].op = "postRequest" /\ clients[c].id # 0
       THEN Cascade(request_items, clients[c].id)
       ELSE request_items,
       SelectSeq(stock_history, LAMBDA row : row.xact # c))

RollbackKeepsWork(pre, work) == work

Rollback(pre, work) == pre

\* the statement client c is at throws: the catch runs
TxFails(c) ==
    /\ clients[c].pc \in TxStatements
    /\ clients' = [clients EXCEPT ![c] = [@ EXCEPT !.pc = "rollback", !.failAt = clients[c].s + 1]]
    /\ NoAnswer
    /\ UNCHANGED <<items, requests, request_items, stock_history, nextRequestId>>

\* COMMIT throws: nothing is committed and the catch runs
TxCommitFails(c) ==
    /\ clients[c].pc = "commit"
    /\ clients' = [clients EXCEPT ![c] = [@ EXCEPT !.pc = "rollback", !.failAt = clients[c].s + 1,
                                                   !.log = @ \o <<"COMMIT failed">>]]
    /\ NoAnswer
    /\ UNCHANGED <<items, requests, request_items, stock_history, nextRequestId>>

\* two transactions wait for a row the other has locked: the store ends one of
\* them with an error ("deadlock detected"), which the handler catches
TxDeadlock(c) ==
    /\ \E d \in Clients : WaitsFor(c, d) /\ WaitsFor(d, c)
    /\ clients' = [clients EXCEPT ![c] = [@ EXCEPT !.pc = "rollback", !.failAt = clients[c].s + 1]]
    /\ NoAnswer
    /\ UNCHANGED <<items, requests, request_items, stock_history, nextRequestId>>

\* the handler of a transaction that has answered
TxDone(cl, ok, log) ==
    [cl EXCEPT !.pc = "done", !.ok = ok, !.rows = <<>>, !.s = 0, !.log = @ \o log]

\* the answer of a handler of a transaction
TxAnswer(cl, ok) ==
    [Call(cl.op, cl.id, cl.status, ok, cl.failAt) EXCEPT !.oldStatus = cl.oldStatus]

\* COMMIT, the answer of success, finally client.release()
TxCommit(c) ==
    LET cl == clients[c]
    IN /\ cl.pc = "commit"
       /\ items' = Work(c).items
       /\ stock_history' = Work(c).stock_history
       /\ requests' = Work(c).requests
       /\ request_items' = Work(c).request_items
       /\ clients' = [clients EXCEPT ![c] = TxDone(cl, TRUE, <<"COMMIT", "release">>)]
       /\ Answer(TxAnswer(cl, TRUE))
       /\ UNCHANGED nextRequestId

\* catch: ROLLBACK; status 500; finally client.release()
TxRollback(c) ==
    LET cl == clients[c]
        out == Rollback(Pre(c), Work(c))
    IN /\ cl.pc = "rollback"
       /\ items' = out.items
       /\ stock_history' = out.stock_history
       /\ requests' = out.requests
       /\ request_items' = out.request_items
       /\ clients' = [clients EXCEPT ![c] = TxDone(cl, FALSE, <<"ROLLBACK", "release">>)]
       /\ Answer(TxAnswer(cl, FALSE))
       /\ UNCHANGED nextRequestId

\* catch: the ROLLBACK throws; the handler rejects, nothing is answered;
\* finally client.release().  The transaction is ended by no COMMIT and no
\* ROLLBACK of the handler: the store aborts it with the session
TxRollbackFails(c) ==
    LET cl == clients[c]
    IN /\ cl.pc = "rollback"
       /\ items' = Pre(c).items
       /\ stock_history' = Pre(c).stock_history
       /\ requests' = Pre(c).requests
       /\ request_items' = Pre(c).request_items
       /\ clients' = [clients EXCEPT ![c] =
             [TxDone(cl, FALSE, <<"ROLLBACK failed", "release">>) EXCEPT !.pc = "rejected"]]
       /\ Answer(TxAnswer(cl, FALSE))
       /\ UNCHANGED nextRequestId

(***************************************************************************)
(* The runs in which the caller sends a call after the answer to the one   *)
(* before: one handler runs at a time, a statement at a step, and any of   *)
(* its statements may throw.                                               *)
(***************************************************************************)
\* the handler of the caller's call
Caller == 1

Next ==
    \/ \E body \in ItemBodies : Quiet /\ PostItems(body, FALSE)
    \/ \E body \in NamedItemBodies : Quiet /\ PostItems(body, TRUE)
    \/ \E id \in ItemIds, body \in PutBodies : PutSelect(Caller, id, body)
    \/ \E id \in ItemIds : PutSelectFails(Caller, id)
    \/ PutUpdate(Caller)
    \/ PutInsertHistory(Caller)
    \/ PutFails(Caller)
    \/ \E id \in ItemIds, fail \in BOOLEAN : Quiet /\ DeleteItem(id, fail)
    \/ \E project_name \in BOOLEAN, lines \in BodyItems : PostConnect(Caller, project_name, lines)
    \/ \E op \in {"postRequest", "patchStatus"} : TxConnectFails(Caller, op)
    \/ PostBegin(Caller)
    \/ PostInsertRequest(Caller)
    \/ PostInsertLine(Caller)
    \/ \E id \in RequestIds, fail \in BOOLEAN : Quiet /\ DeleteRequest(id, fail)
    \/ \E id \in RequestIds, status \in StatusInputs : TxConnect(Caller, id, status)
    \/ TxBegin(Caller)
    \/ TxBeginFails(Caller)
    \/ TxSelectStatus(Caller)
    \/ \E order \in RowOrders(Committed, clients[Caller].id) : TxSelectItems(Caller, order)
    \/ TxUpdateItem(Caller)
    \/ TxInsertHistory(Caller)
    \/ TxUpdateRequest(Caller)
    \/ TxFails(Caller)
    \/ TxCommitFails(Caller)
    \/ TxCommit(Caller)
    \/ TxRollback(Caller)
    \/ TxRollbackFails(Caller)

Spec == Init /\ [][Next]_vars

(***************************************************************************)
(* The runs in which no statement fails and every call succeeds.           *)
(***************************************************************************)
NextOk ==
    \/ \E body \in NamedItemBodies : Quiet /\ PostItems(body, FALSE)
    \/ \E id \in 1..Len(items), body \in PutBodies : PutSelect(Caller, id, body)
    \/ PutUpdate(Caller)
    \/ PutInsertHistory(Caller)
    \/ \E id \in 1..Len(items) : Quiet /\ DeleteItem(id, FALSE)
    \/ \E lines \in BodyItems : Len(lines) > 0 /\ PostConnect(Caller, TRUE, lines)
    \/ PostBegin(Caller)
    \/ PostInsertRequest(Caller)
    \/ PostInsertLine(Caller)
    \/ \E id \in DOMAIN requests : Quiet /\ DeleteRequest(id, FALSE)
    \/ \E id \in DOMAIN requests, status \in StatusInputs : TxConnect(Caller, id, status)
    \/ TxBegin(Caller)
    \/ TxSelectStatus(Caller)
    \/ \E order \in RowOrders(Committed, clients[Caller].id) : TxSelectItems(Caller, order)
    \/ TxUpdateItem(Caller)
    \/ TxInsertHistory(Caller)
    \/ TxUpdateRequest(Caller)
    \/ TxCommit(Caller)

SpecOk == Init /\ [][NextOk]_vars

(***************************************************************************)
(* The status functions applied: an item of any quantity and minQuantity   *)
(* in 0..MaxQuantity (minQuantity also NULL, which both functions read as  *)
(* 0), read by GET /api/items/:id and written by an approval, with the     *)
(* statements that throw.                                                  *)
(***************************************************************************)
InitStatus ==
    /\ \E q \in 0..MaxQuantity, m \in {NULL} \cup 0..MaxQuantity :
          items = <<ItemRow(q, m, "in-stock", 1)>>
    /\ requests = (1 :> [status |-> "pending"])
    /\ \E r \in RequestedQuantities : request_items = <<RequestItemRow(1, 1, r)>>
    /\ stock_history = <<>>
    /\ nextRequestId = 2
    /\ last = NoCall
    /\ calls = 0
    /\ clients = [c \in Clients |-> Idle]

NextStatus ==
    \/ \E id \in 1..Len(items), fail \in BOOLEAN : Quiet /\ GetItemById(id, fail)
    \/ \E id \in DOMAIN requests : TxConnect(Caller, id, "approved")
    \/ TxConnectFails(Caller, "patchStatus")
    \/ TxBegin(Caller)
    \/ TxBeginFails(Caller)
    \/ TxSelectStatus(Caller)
    \/ \E order \in RowOrders(Committed, clients[Caller].id) : TxSelectItems(Caller, order)
    \/ TxUpdateItem(Caller)
    \/ TxInsertHistory(Caller)
    \/ TxUpdateRequest(Caller)
    \/ TxFails(Caller)
    \/ TxCommitFails(Caller)
    \/ TxCommit(Caller)
    \/ TxRollback(Caller)
    \/ TxRollbackFails(Caller)

SpecStatus == InitStatus /\ [][NextStatus]_vars

(***************************************************************************)
(* The runs of the handlers that create, read and delete requests, and of  *)
(* the handlers that create and soft-delete the items their lines name,    *)
(* with the statements that throw.                                         *)
(***************************************************************************)
NextRequests ==
    \/ \E body \in ItemBodies : Quiet /\ PostItems(body, FALSE)
    \/ \E body \in NamedItemBodies : Quiet /\ PostItems(body, TRUE)
    \/ \E id \in ItemIds, fail \in BOOLEAN : Quiet /\ DeleteItem(id, fail)
    \/ \E project_name \in BOOLEAN, lines \in BodyItems : PostConnect(Caller, project_name, lines)
    \/ TxConnectFails(Caller, "postRequest")
    \/ PostBegin(Caller)
    \/ TxBeginFails(Caller)
    \/ PostInsertRequest(Caller)
    \/ PostInsertLine(Caller)
    \/ TxFails(Caller)
    \/ TxCommitFails(Caller)
    \/ TxCommit(Caller)
    \/ TxRollback(Caller)
    \/ TxRollbackFails(Caller)
    \/ \E id \in RequestIds : GetSelectRequest(Caller, id)
    \/ \E id \in RequestIds : GetSelectRequestFails(Caller, id)
    \/ \E order \in Orders(Len(JoinedLines(Committed, clients[Caller].id))) :
          GetSelectLines(Caller, order)
    \/ GetSelectLinesFails(Caller)
    \/ \E id \in RequestIds, fail \in BOOLEAN : Quiet /\ DeleteRequest(id, fail)

SpecRequests == Init /\ [][NextRequests]_vars

(***************************************************************************)
(* The store the runs below start from: two items as POST /api/items       *)
(* creates them and two pending requests as POST /api/requests creates     *)
(* them.                                                                   *)
(***************************************************************************)
TxItems == <<ItemRow(3, 2, "in-stock", 1), ItemRow(3, 2, "in-stock", 1)>>

\* the lines of the two requests: no request names an item twice
TxBodies ==
    {<<[item_id |-> 1, quantity |-> 1]>>,
     <<[item_id |-> 1, quantity |-> 5]>>,
     <<[item_id |-> 1, quantity |-> 1], [item_id |-> 2, quantity |-> 1]>>}

\* the statuses the two concurrent calls carry
TxStatusInputs == {"approved", "rejected"}

RECURSIVE InsertLines(_, _, _, _)
\* request_items after the first k lines of a body are inserted
InsertLines(ri, requestId, lines, k) ==
    IF k = 0 THEN ri
    ELSE Append(InsertLines(ri, requestId, lines, k - 1),
                RequestItemRow(requestId, lines[k].item_id, lines[k].quantity))

InitTx ==
    /\ items = TxItems
    /\ requests = (1 :> [status |-> "pending"]) @@ (2 :> [status |-> "pending"])
    /\ \E b1, b2 \in TxBodies :
          request_items = InsertLines(InsertLines(<<>>, 1, b1, Len(b1)), 2, b2, Len(b2))
    /\ stock_history = <<>>
    /\ nextRequestId = 3
    /\ last = NoCall
    /\ calls = 0
    /\ clients = [c \in Clients |-> Idle]

(***************************************************************************)
(* Two PATCH /api/requests/:id/status handlers run concurrently, each on   *)
(* its own pooled client, one statement at a time.  No statement throws    *)
(* but the one the store ends a deadlock with.                             *)
(***************************************************************************)
NextTx ==
    \/ \E c \in Clients, id \in RequestIds, status \in TxStatusInputs :
          Fresh(c) /\ TxConnect(c, id, status)
    \/ \E c \in Clients : TxBegin(c)
    \/ \E c \in Clients : TxSelectStatus(c)
    \/ \E c \in Clients : \E order \in RowOrders(Committed, clients[c].id) :
          TxSelectItems(c, order)
    \/ \E c \in Clients : TxUpdateItem(c)
    \/ \E c \in Clients : TxInsertHistory(c)
    \/ \E c \in Clients : TxUpdateRequest(c)
    \/ \E c \in Clients : TxCommit(c)
    \/ \E c \in Clients : TxDeadlock(c)
    \/ \E c \in Clients : TxRollback(c)

SpecTx == InitTx /\ [][NextTx]_vars

(***************************************************************************)
(* Two PATCH /api/requests/:id/status calls, the second sent after the     *)
(* answer to the first, each handled on its own pooled client, with every  *)
(* status a caller may send and the statements that throw.                 *)
(***************************************************************************)
NextPatch ==
    \/ \E c \in Clients, id \in RequestIds, status \in StatusInputs :
          Quiet /\ Fresh(c) /\ TxConnect(c, id, status)
    \/ \E c \in Clients : Quiet /\ Fresh(c) /\ TxConnectFails(c, "patchStatus")
    \/ \E c \in Clients : TxBegin(c)
    \/ \E c \in Clients : TxBeginFails(c)
    \/ \E c \in Clients : TxSelectStatus(c)
    \/ \E c \in Clients : \E order \in RowOrders(Committed, clients[c].id) :
          TxSelectItems(c, order)
    \/ \E c \in Clients : TxUpdateItem(c)
    \/ \E c \in Clients : TxInsertHistory(c)
    \/ \E c \in Clients : TxUpdateRequest(c)
    \/ \E c \in Clients : TxFails(c)
    \/ \E c \in Clients : TxCommitFails(c)
    \/ \E c \in Clients : TxCommit(c)
    \/ \E c \in Clients : TxRollback(c)
    \/ \E c \in Clients : TxRollbackFails(c)

SpecPatch == InitTx /\ [][NextPatch]_vars

(***************************************************************************)
(* A PATCH /api/requests/:id/status or a POST /api/requests on each of two *)
(* clients, their statements alternating, with the statements that throw.  *)
(***************************************************************************)
\* the bodies of the concurrent POST /api/requests calls: no items, one line
\* for more than the item has, two lines
TxPostBodies ==
    {<<>>,
     <<[item_id |-> 1, quantity |-> 5]>>,
     <<[item_id |-> 1, quantity |-> 1], [item_id |-> 2, quantity |-> 1]>>}

NextCalls ==
    \/ \E c \in Clients, id \in RequestIds, status \in TxStatusInputs :
          Fresh(c) /\ TxConnect(c, id, status)
    \/ \E c \in Clients, op \in {"patchStatus", "postRequest"} : Fresh(c) /\ TxConnectFails(c, op)
    \/ \E c \in Clients : TxBegin(c)
    \/ \E c \in Clients : TxBeginFails(c)
    \/ \E c \in Clients : TxSelectStatus(c)
    \/ \E c \in Clients : \E order \in RowOrders(Committed, clients[c].id) :
          TxSelectItems(c, order)
    \/ \E c \in Clients : TxUpdateItem(c)
    \/ \E c \in Clients : TxInsertHistory(c)
    \/ \E c \in Clients : TxUpdateRequest(c)
    \/ \E c \in Clients : TxCommit(c)
    \/ \E c \in Clients : TxDeadlock(c)
    \/ \E c \in Clients : TxRollback(c)
    \/ \E c \in Clients : TxRollbackFails(c)
    \/ \E c \in Clients : TxFails(c)
    \/ \E c \in Clients : TxCommitFails(c)
    \/ \E c \in Clients, project_name \in BOOLEAN, lines \in TxPostBodies :
          Fresh(c) /\ PostConnect(c, project_name, lines)
    \/ \E c \in Clients : PostBegin(c)
    \/ \E c \in Clients : PostInsertRequest(c)
    \/ \E c \in Clients : PostInsertLine(c)

SpecCalls == InitTx /\ [][NextCalls]_vars

(***************************************************************************)
(* PUT /api/items/:id runs beside a PATCH /api/requests/:id/status, their  *)
(* statements alternating.  No statement fails here.                       *)
(***************************************************************************)
\* the client that handles the PATCH and the client that handles the PUT
PatchClient == 1

PutClient == 2

NextPut ==
    \/ \E id \in RequestIds, status \in TxStatusInputs :
          Fresh(PatchClient) /\ TxConnect(PatchClient, id, status)
    \/ TxBegin(PatchClient)
    \/ TxSelectStatus(PatchClient)
    \/ \E order \in RowOrders(Committed, clients[PatchClient].id) :
          TxSelectItems(PatchClient, order)
    \/ TxUpdateItem(PatchClient)
    \/ TxInsertHistory(PatchClient)
    \/ TxUpdateRequest(PatchClient)
    \/ TxCommit(PatchClient)
    \/ TxRollback(PatchClient)
    \/ \E id \in ItemIds, body \in PutBodies : Fresh(PutClient) /\ PutSelect(PutClient, id, body)
    \/ PutUpdate(PutClient)
    \/ PutInsertHistory(PutClient)

SpecPut == InitTx /\ [][NextPut]_vars

(***************************************************************************)
(* The ledger over a sequence of calls, each sent after the answer to the  *)
(* one before: a PATCH /api/requests/:id/status, a PUT /api/items/:id,     *)
(* and DELETE /api/items/:id and DELETE /api/requests/:id calls, with the  *)
(* statements that throw.                                                  *)
(***************************************************************************)
\* the store the calls start from: a pending request with one line and a
\* pending request with a line for each item
InitLedger ==
    /\ items = TxItems
    /\ requests = (1 :> [status |-> "pending"]) @@ (2 :> [status |-> "pending"])
    /\ request_items = <<RequestItemRow(1, 1, 1), RequestItemRow(2, 1, 1), RequestItemRow(2, 2, 1)>>
    /\ stock_history = <<>>
    /\ nextRequestId = 3
    /\ last = NoCall
    /\ calls = 0
    /\ clients = [c \in Clients |-> Idle]

NextLedger ==
    \/ \E id \in RequestIds, status \in TxStatusInputs :
          Quiet /\ Fresh(PatchClient) /\ TxConnect(PatchClient, id, status)
    \/ Quiet /\ Fresh(PatchClient) /\ TxConnectFails(PatchClient, "patchStatus")
    \/ TxBegin(PatchClient)
    \/ TxBeginFails(PatchClient)
    \/ TxSelectStatus(PatchClient)
    \/ \E order \in RowOrders(Committed, clients[PatchClient].id) :
          TxSelectItems(PatchClient, order)
    \/ TxUpdateItem(PatchClient)
    \/ TxInsertHistory(PatchClient)
    \/ TxUpdateRequest(PatchClient)
    \/ TxFails(PatchClient)
    \/ TxCommitFails(PatchClient)
    \/ TxCommit(PatchClient)
    \/ TxRollback(PatchClient)
    \/ TxRollbackFails(PatchClient)
    \/ \E id \in ItemIds, body \in PutBodies :
          Quiet /\ Fresh(PutClient) /\ PutSelect(PutClient, id, body)
    \/ \E id \in ItemIds : Quiet /\ Fresh(PutClient) /\ PutSelectFails(PutClient, id)
    \/ PutUpdate(PutClient)
    \/ PutInsertHistory(PutClient)
    \/ PutFails(PutClient)
    \/ \E id \in ItemIds, fail \in BOOLEAN : Quiet /\ DeleteItem(id, fail)
    \/ \E id \in RequestIds, fail \in BOOLEAN : Quiet /\ DeleteRequest(id, fail)

SpecLedger == InitLedger /\ [][NextLedger]_vars

(***************************************************************************)
(* Two PUT /api/items/:id handlers run concurrently, one statement at a    *)
(* time, with the statements that may throw.  POST /api/items and DELETE   *)
(* /api/items/:id are one statement each and run between any two           *)
(* statements of the PUT handlers.                                         *)
(***************************************************************************)
\* the store the handlers start from: the items POST /api/items creates from
\* a body with no quantity and from a body with quantity 3, minQuantity 2
PutItems == <<ItemRow(0, 0, "in-stock", 1), ItemRow(3, 2, "in-stock", 1)>>

InitPuts ==
    /\ items = PutItems
    /\ requests = <<>>
    /\ request_items = <<>>
    /\ stock_history = <<>>
    /\ nextRequestId = 1
    /\ last = NoCall
    /\ calls = 0
    /\ clients = [c \in Clients |-> Idle]

NextPuts ==
    \/ \E c \in Clients, id \in ItemIds, body \in PutBodies : Fresh(c) /\ PutSelect(c, id, body)
    \/ \E c \in Clients, id \in ItemIds : Fresh(c) /\ PutSelectFails(c, id)
    \/ \E c \in Clients : PutUpdate(c)
    \/ \E c \in Clients : PutInsertHistory(c)
    \/ \E c \in Clients : PutFails(c)
    \/ \E body \in ItemBodies, fail \in BOOLEAN :
          Len(items) = Len(PutItems) /\ PostItems(body, fail)
    \/ \E id \in 1..Len(PutItems), fail \in BOOLEAN : DeleteItem(id, fail)

SpecPuts == InitPuts /\ [][NextPuts]_vars

(***************************************************************************)
(* GET /api/requests/:id runs its two SELECTs on the pool, each on its     *)
(* own, and either may throw; DELETE /api/requests/:id is one statement    *)
(* and runs before, between or after them.                                 *)
(***************************************************************************)
NextGet ==
    \/ \E c \in Clients, id \in RequestIds : Fresh(c) /\ GetSelectRequest(c, id)
    \/ \E c \in Clients, id \in RequestIds : Fresh(c) /\ GetSelectRequestFails(c, id)
    \/ \E c \in Clients : GetSelectLinesFails(c)
    \/ \E c \in Clients :
          \E order \in Orders(Len(JoinedLines(Committed, clients[c].id))) :
             GetSelectLines(c, order)
    \/ \E id \in RequestIds, fail \in BOOLEAN : DeleteRequest(id, fail)

SpecGet == InitTx /\ [][NextGet]_vars

(***************************************************************************)
(* The properties.  A call is over at the step at which it is answered;    *)
(* what it committed is read from History, Lines, items and requests, the  *)
(* rows that are committed.                                                *)
(***************************************************************************)
\* the step is a statement of the handler on client c
Step(c) == clients'[c] # clients[c]

\* the step answers a call of PATCH /api/requests/:id/status
Patched == last'.op = "patchStatus" /\ calls' = calls + 1

\* the call committed an approval of a request that was not approved
Approved == Patched /\ last'.ok /\ last'.status = "approved" /\ last'.oldStatus # "approved"

\* the store after the step
CommittedNext == DB(items', requests', Lines', History')

StockUnchanged == items' = items /\ History' = History

\* the rule of the data model: out-of-stock iff quantity is 0, low-stock iff
\* 0 < quantity <= minQuantity, otherwise in-stock
derive(quantity, minQuantity) ==
    IF quantity = 0 THEN "out-of-stock"
    ELSE IF 0 < quantity /\ quantity <= minQuantity THEN "low-stock"
    ELSE "in-stock"

\* the items the lines of a request name
ItemsOf(id) ==
    {request_items[k].item_id :
        k \in {j \in 1..Len(request_items) :
                 request_items[j].request_id = id /\ request_items[j].item_id # NULL}}

\* the quantity of the item a line names, 0 when it names none
QuantityOf(i) == IF i \in 1..Len(items) THEN items[i].quantity ELSE 0

(***************************************************************************)
(* C1: a PATCH with status 'approved' on a request that is already         *)
(* approved changes no item and appends no stock_history entry, at any of  *)
(* its statements, so two approvals in a row deduct once.                  *)
(***************************************************************************)
C1_ReapprovalIsNoOp ==
    [][\A c \in Clients :
          (/\ Step(c) /\ clients'[c].op = "patchStatus"
           /\ clients'[c].status = "approved" /\ clients'[c].oldStatus = "approved") =>
             StockUnchanged]_vars

\* a request approved twice in a row, its one line deducted once
C1_Witness ==
    /\ last.op = "patchStatus" /\ last.ok /\ last.status = "approved"
    /\ last.oldStatus = "approved"
    /\ Len(LinesOf(Lines, last.id)) = 1
    /\ Len(History) = 1
    /\ History[1].notes = ApprovedNote(last.id)
    /\ items[History[1].item_id].quantity = History[1].quantity_after

(***************************************************************************)
(* C2: a PATCH call that fails at any statement leaves the request's       *)
(* status, every item and the stock_history as they were before the call:  *)
(* no statement of the handler but the COMMIT it answers success after     *)
(* changes what is committed.                                              *)
(***************************************************************************)
C2_FailedCallChangesNothing ==
    [][/\ (Patched /\ ~last'.ok) => CommittedNext = Committed
       /\ \A c \in Clients :
             (/\ Step(c) /\ clients'[c].op = "patchStatus"
              /\ ~(clients'[c].pc = "done" /\ clients'[c].ok)) =>
                CommittedNext = Committed]_vars

\* an approval of a request with lines for two items failed at the UPDATE of
\* the second item, after the first item's UPDATE and history INSERT
C2_Witness ==
    /\ last.op = "patchStatus" /\ ~last.ok /\ last.status = "approved"
    /\ last.failAt = 3
    /\ Cardinality(ItemsOf(last.id)) = 2
    /\ requests[last.id].status = "pending"
    /\ \A i \in ItemsOf(last.id) : items[i].quantity = 3
    /\ stock_history = <<>>

(***************************************************************************)
(* The lines of a request applied one after the other, each to the         *)
(* quantity the one before it left.                                        *)
(***************************************************************************)
RECURSIVE SeqQuantity(_, _, _, _)
\* the quantity of item i, q before the first line, after the first k lines
SeqQuantity(q, lines, k, i) ==
    IF k = 0 THEN q
    ELSE LET p == SeqQuantity(q, lines, k - 1, i)
         IN IF lines[k].item_id = i THEN Max(0, p - lines[k].quantity) ELSE p

\* the lines of request id in one of the orders they may be processed in
Ordered(id, order) ==
    [k \in 1..Len(order) |-> LinesOf(Lines, id)[order[k]]]

\* the entry the k-th line appends: before is the quantity the line found
SeqEntry(id, lines, k) ==
    LET i == lines[k].item_id
        before == SeqQuantity(QuantityOf(i), lines, k - 1, i)
    IN HistoryRow(i, "request", before, -lines[k].quantity,
                  Max(0, before - lines[k].quantity), ApprovedNote(id))

(***************************************************************************)
(* C3: approving a request that is not approved sets the quantity of the   *)
(* item of every line to max(0, current - requested); the quantity is      *)
(* clamped at 0 and the approval succeeds.                                 *)
(***************************************************************************)
C3_ApprovalDeductsEveryLine ==
    [][Approved =>
          \E order \in Orders(Len(LinesOf(Lines, last'.id))) :
             \A i \in ItemsOf(last'.id) :
                items'[i].quantity =
                   SeqQuantity(items[i].quantity, Ordered(last'.id, order), Len(order), i)]_vars

(***************************************************************************)
(* C4: approving a request that is not approved appends one 'request'      *)
(* entry per line: quantity_before the item's quantity before the line's   *)
(* deduction, quantity_change minus the requested quantity, quantity_after *)
(* max(0, before - requested).                                             *)
(***************************************************************************)
C4_ApprovalAppendsEntryPerLine ==
    [][Approved =>
          \E order \in Orders(Len(LinesOf(Lines, last'.id))) :
             History' =
                History \o [k \in 1..Len(order) |->
                              SeqEntry(last'.id, Ordered(last'.id, order), k)]]_vars

(***************************************************************************)
(* C5: a PATCH whose status is not 'approved' changes the status of that   *)
(* request and nothing else: no item, no stock_history entry.              *)
(***************************************************************************)
C5_OtherStatusOnlySetsStatus ==
    [][/\ (Patched /\ last'.status # "approved") =>
             /\ StockUnchanged
             /\ Lines' = Lines
             /\ DOMAIN requests' = DOMAIN requests
             /\ \A r \in DOMAIN requests :
                   requests'[r].status =
                      IF r = last'.id /\ last'.ok THEN last'.status ELSE requests[r].status
       /\ \A c \in Clients :
             (Step(c) /\ clients'[c].op = "patchStatus" /\ clients'[c].status # "approved") =>
                StockUnchanged /\ request_items' = request_items]_vars

\* a pending request over stocked items was rejected
C5_Witness ==
    /\ last.op = "patchStatus" /\ last.ok /\ last.status = "rejected"
    /\ last.oldStatus = "pending"
    /\ requests[last.id].status = "rejected"
    /\ \E i \in ItemsOf(last.id) : items[i].quantity = 3
    /\ stock_history = <<>>

(***************************************************************************)
(* C7: the status an approval stores for every item it touches is          *)
(* derive(newQuantity, minQuantity) of the quantity after the deduction.   *)
(***************************************************************************)
C7_ApprovalStoresDerivedStatus ==
    [][Approved =>
          \A i \in ItemsOf(last'.id) :
             items'[i].status = derive(items'[i].quantity, items'[i].minQuantity)]_vars

\* an approval left an item at quantity = minQuantity > 0, stored as low-stock
C7_Witness ==
    /\ last.op = "patchStatus" /\ last.ok /\ last.status = "approved"
    /\ last.oldStatus = "pending"
    /\ \E i \in ItemsOf(last.id) :
          /\ items[i].quantity = items[i].minQuantity
          /\ items[i].quantity > 0
          /\ items[i].status = "low-stock"

(***************************************************************************)
(* C6: the stored status of every item is derive(quantity, minQuantity)    *)
(* after every mutation (creation, PUT, approval).                         *)
(***************************************************************************)
C6_StoredStatusIsDerived ==
    \A i \in 1..Len(items) :
       items[i].status = derive(items[i].quantity, items[i].minQuantity)

(***************************************************************************)
(* C8: every stock_history entry has                                       *)
(* quantity_after = quantity_before + quantity_change.                     *)
(***************************************************************************)
C8_EntriesAddUp ==
    \A k \in 1..Len(History) :
       History[k].quantity_after = History[k].quantity_before + History[k].quantity_change

(***************************************************************************)
(* C9: in the entries of an item, in insertion order, every entry's        *)
(* quantity_before is the quantity_after of the entry before it, after any *)
(* sequence of successful calls.                                           *)
(***************************************************************************)
\* entry k is the entry of its item that follows entry j
NextOfItem(j, k) ==
    /\ j < k
    /\ History[j].item_id = History[k].item_id
    /\ \A m \in (j + 1)..(k - 1) : History[m].item_id # History[k].item_id

C9_LedgerChains ==
    \A j, k \in 1..Len(History) :
       NextOfItem(j, k) => History[k].quantity_before = History[j].quantity_after

(***************************************************************************)
(* C10: a PUT changes the quantity of the item and appends its             *)
(* stock_history entry together, or does neither: when the handler         *)
(* answers, the quantity differs from the one it found iff it has appended *)
(* an entry.                                                               *)
(***************************************************************************)
C10_PutPersistsBothOrNeither ==
    [][\A c \in Clients :
          (/\ Step(c) /\ clients'[c].op = "putItem" /\ clients'[c].pc = "done"
           /\ clients[c].pc \in {"putUpdate", "putInsert"}) =>
             (items'[clients[c].id].quantity # clients[c].oldQty
                <=> Len(History') = Len(History) + 1)]_vars

(***************************************************************************)
(* Concurrent calls: both handlers have answered with success              *)
(***************************************************************************)
\* both concurrent calls were approvals that the server committed
BothApproved ==
    \A c \in Clients :
       /\ clients[c].op = "patchStatus"
       /\ clients[c].pc = "done" /\ clients[c].ok /\ clients[c].status = "approved"

\* the lines of requests a and then b, as one serial order of the two approvals
Serial(a, b) == LinesOf(Lines, a) \o LinesOf(Lines, b)

\* the quantity of item i after the approvals of a and then b, one after the other
SerialQuantity(a, b, i) ==
    SeqQuantity(TxItems[i].quantity, Serial(a, b), Len(Serial(a, b)), i)

(***************************************************************************)
(* C11: two concurrent approvals of different pending requests that each   *)
(* have a line for the same item leave the item with the quantity of the   *)
(* two deductions applied in some serial order: no deduction is lost.      *)
(***************************************************************************)
C11_ConcurrentApprovalsSerialize ==
    (BothApproved /\ clients[1].id # clients[2].id) =>
       \A i \in ItemsOf(clients[1].id) \cap ItemsOf(clients[2].id) :
          \/ items[i].quantity = SerialQuantity(clients[1].id, clients[2].id, i)
          \/ items[i].quantity = SerialQuantity(clients[2].id, clients[1].id, i)

(***************************************************************************)
(* C12: two concurrent approvals of the same pending request deduct its    *)
(* lines once and append one 'request' entry per line in total.            *)
(***************************************************************************)
C12_ConcurrentApprovalDeductsOnce ==
    (BothApproved /\ clients[1].id = clients[2].id) =>
       /\ Len(History) = Len(LinesOf(Lines, clients[1].id))
       /\ \A i \in ItemsOf(clients[1].id) :
             items[i].quantity =
                SeqQuantity(TxItems[i].quantity, LinesOf(Lines, clients[1].id),
                            Len(LinesOf(Lines, clients[1].id)), i)

(***************************************************************************)
(* C13: once a request is 'completed', no PATCH changes its status, any    *)
(* item or the stock_history.                                              *)
(***************************************************************************)
C13_CompletedIsImmutable ==
    [][(Patched /\ last'.oldStatus = "completed") =>
          /\ StockUnchanged
          /\ requests'[last'.id].status = "completed"]_vars

(***************************************************************************)
(* C14: a PATCH on an id that resolves to no request answers with an error *)
(* and changes no request, item, line or stock_history entry.              *)
(***************************************************************************)
C14_UnknownRequestFails ==
    [][(Patched /\ last'.id \notin DOMAIN requests) =>
          /\ ~last'.ok
          /\ CommittedNext = Committed
          /\ request_items' = request_items]_vars

\* an approval of an id that names no request was refused while the store
\* held an item and a pending request with a line
C14_Witness ==
    /\ last.op = "patchStatus" /\ ~last.ok /\ last.status = "approved"
    /\ last.id \notin DOMAIN requests
    /\ \E r \in DOMAIN requests : requests[r].status = "pending" /\ ItemsOf(r) # {}
    /\ stock_history = <<>>

(***************************************************************************)
(* C15: the quantity of every item is an integer >= 0 in every reachable   *)
(* state.                                                                  *)
(***************************************************************************)
C15_QuantityIsNotNegative ==
    \A i \in 1..Len(items) : items[i].quantity \in Nat

(***************************************************************************)
(* C16: the status of every request is one of 'pending', 'approved',       *)
(* 'rejected', 'completed' in every reachable state.                       *)
(***************************************************************************)
RequestStatus == {"pending", "approved", "rejected", "completed"}

C16_StatusIsOfTheEnumeration ==
    \A r \in DOMAIN requests : requests[r].status \in RequestStatus

(***************************************************************************)
(* C17: a PUT that supplies a quantity different from the stored one sets  *)
(* the quantity to the supplied value and appends one entry with           *)
(* quantity_before the old quantity, quantity_change new - old,            *)
(* quantity_after the new quantity, change_type 'restock' when the         *)
(* quantity rose and 'adjustment' when it fell; a PUT that supplies no     *)
(* quantity or the stored one appends no entry.  Stated of the statements  *)
(* of the handler: the SELECT reads the stored quantity (the old one), the *)
(* UPDATE sets the supplied one and only a quantity other than the old one *)
(* leads to the INSERT, the INSERT appends the entry.                      *)
(***************************************************************************)
\* the entry a PUT of quantity new on item id at quantity old is to append
PutEntryIs(e, id, old, new) ==
    /\ e.item_id = id
    /\ e.change_type = IF new > old THEN "restock" ELSE "adjustment"
    /\ e.quantity_before = old
    /\ e.quantity_change = new - old
    /\ e.quantity_after = new

C17_PutSetsQuantityAndLogs ==
    [][\A c \in Clients :
          LET cl == clients[c]
              new == clients'[c]
          IN (Step(c) /\ new.op = "putItem") =>
                /\ new.pc = "putUpdate" => new.oldQty = items[new.id].quantity
                /\ (cl.pc \notin {"putUpdate", "putInsert"} /\ new.pc = "done") => StockUnchanged
                /\ (cl.pc = "putUpdate" /\ (new.pc = "putInsert" \/ new.ok)) =>
                      /\ items'[cl.id].quantity =
                            IF "quantity" \in DOMAIN cl.body THEN cl.body["quantity"]
                            ELSE items[cl.id].quantity
                      /\ History' = History
                      /\ new.pc = "putInsert" <=>
                            ("quantity" \in DOMAIN cl.body /\ cl.body["quantity"] # cl.oldQty)
                /\ (cl.pc = "putInsert" /\ new.ok) =>
                      /\ items' = items
                      /\ Len(History') = Len(History) + 1
                      /\ SubSeq(History', 1, Len(History)) = History
                      /\ PutEntryIs(History'[Len(History')], cl.id, cl.oldQty,
                                    cl.body["quantity"])]_vars

\* an item was adjusted below its quantity by one PUT and restocked by the
\* next: the entries are an 'adjustment' and a 'restock' to the stored quantity
C17_Witness ==
    /\ last.op = "putItem" /\ last.ok
    /\ Quiet
    /\ Len(History) = 2
    /\ History[1].change_type = "adjustment"
    /\ History[1].quantity_change < 0
    /\ History[2].change_type = "restock"
    /\ History[2].item_id = last.id
    /\ History[2].quantity_before = History[1].quantity_after
    /\ History[2].quantity_after = items[last.id].quantity

(***************************************************************************)
(* C18: stock_history is append-only: after every operation of the server  *)
(* (approval, PUT, item soft delete, request delete, and the calls that    *)
(* fail) the history before it is a prefix of the history.                 *)
(***************************************************************************)
C18_HistoryIsAppendOnly ==
    [][/\ Len(History') >= Len(History)
       /\ SubSeq(History', 1, Len(History)) = History]_vars

\* an item with two entries was soft-deleted: the entries are still there
C18_Witness ==
    /\ last.op = "deleteItem" /\ last.ok
    /\ last.id \in 1..Len(items)
    /\ items[last.id].isActive = 0
    /\ Len(History) = 2
    /\ \A k \in 1..2 : History[k].item_id = last.id

(***************************************************************************)
(* C19: a request created with N lines and then read by id has exactly N   *)
(* lines, each with the item id and the quantity that was submitted, also  *)
(* when several lines name the same item: the request is stored with the   *)
(* lines that were submitted, no later call changes them while the request *)
(* is stored, and GET /api/requests/:id answers with those lines.          *)
(***************************************************************************)
\* got holds the submitted lines, each once, in some order
SameLines(got, lines) ==
    /\ Len(got) = Len(lines)
    /\ \E p \in Orders(Len(lines)) :
          \A k \in 1..Len(lines) :
             /\ got[k].item_id = lines[p[k]].item_id
             /\ got[k].quantity = lines[p[k]].quantity

C19_CreateThenReadRoundTrip ==
    [][\A c \in Clients :
          LET cl == clients[c]
              new == clients'[c]
          IN /\ (Step(c) /\ new.op = "postRequest" /\ new.pc = "done" /\ new.ok) =>
                   LinesOf(Lines', cl.id) =
                      [k \in 1..Len(cl.rows) |->
                         RequestItemRow(cl.id, cl.rows[k].item_id, cl.rows[k].quantity)]
             /\ \A r \in DOMAIN requests \cap DOMAIN requests' :
                   LinesOf(Lines', r) = LinesOf(Lines, r)
             /\ (Step(c) /\ new.op = "getRequest" /\ new.pc = "done" /\ new.ok) =>
                   SameLines(new.rows, LinesOf(Lines, cl.id))]_vars

(***************************************************************************)
(* C20: POST /api/requests stores the request together with all of its     *)
(* lines, or nothing: a body with no project name or no items is refused   *)
(* before anything is written, and a failure of any INSERT leaves neither  *)
(* the request nor any of its lines.                                       *)
(***************************************************************************)
C20_PostRequestIsAllOrNothing ==
    [][\A c \in Clients :
          LET cl == clients[c]
              new == clients'[c]
          IN (Step(c) /\ new.op = "postRequest") =>
                /\ (~Running(cl) /\ new.pc = "begin") => Len(new.rows) > 0
                /\ (~Running(cl) /\ new.pc # "begin") =>
                      ~new.ok /\ request_items' = request_items
                /\ IF new.pc = "done" /\ new.ok
                   THEN /\ cl.id \notin DOMAIN requests
                        /\ DOMAIN requests' = DOMAIN requests \cup {cl.id}
                        /\ \A r \in DOMAIN requests :
                              /\ requests'[r] = requests[r]
                              /\ LinesOf(Lines', r) = LinesOf(Lines, r)
                        /\ requests'[cl.id].status = "pending"
                        /\ LinesOf(Lines', cl.id) =
                              [k \in 1..Len(cl.rows) |->
                                 RequestItemRow(cl.id, cl.rows[k].item_id, cl.rows[k].quantity)]
                   ELSE /\ requests' = requests
                        /\ Lines' = Lines
                        /\ ~Running(new) => LinesOf(request_items', cl.id) = <<>>]_vars

\* the INSERT of the second line of a request failed: neither the request
\* nor its first line is stored
C20_Witness ==
    /\ last.op = "postRequest" /\ ~last.ok
    /\ last.failAt = 3
    /\ last.id \notin DOMAIN requests
    /\ LinesOf(request_items, last.id) = <<>>
    /\ items # <<>>

(***************************************************************************)
(* C21: DELETE /api/items/:id only clears the active flag of the item: the *)
(* row, its quantity and status, every stock_history entry and every       *)
(* request line stay, and GET /api/items no longer lists the item.  A call *)
(* whose UPDATE throws changes nothing.                                    *)
(***************************************************************************)
C21_SoftDeleteKeepsEverything ==
    [][(last'.op = "deleteItem" /\ calls' = calls + 1) =>
          /\ Len(items') = Len(items)
          /\ \A i \in 1..Len(items) :
                items'[i] = IF i = last'.id /\ last'.ok
                            THEN [items[i] EXCEPT !.isActive = 0]
                            ELSE items[i]
          /\ stock_history' = stock_history
          /\ request_items' = request_items
          /\ requests' = requests
          /\ last'.ok => \A row \in GetItems(CommittedNext) : row.id # last'.id]_vars

\* an item with a request line and a stock_history entry was deleted: the row
\* is stored with its quantity, and the list does not show it
C21_Witness ==
    /\ last.op = "deleteItem" /\ last.ok
    /\ last.id \in 1..Len(items)
    /\ items[last.id].isActive = 0
    /\ items[last.id].quantity > 0
    /\ \E k \in 1..Len(History) : History[k].item_id = last.id
    /\ \E k \in 1..Len(Lines) : Lines[k].item_id = last.id
    /\ \A row \in GetItems(Committed) : row.id # last.id

(***************************************************************************)
(* C22: DELETE /api/requests/:id removes the request and all of its lines  *)
(* and nothing else: items and stock_history stay as they are (stock an    *)
(* approval deducted is not restored); on an unknown id it answers         *)
(* not-found and changes nothing.  A call whose DELETE throws changes      *)
(* nothing.                                                                *)
(***************************************************************************)
C22_DeleteRequestRemovesItAndItsLines ==
    [][(last'.op = "deleteRequest" /\ calls' = calls + 1) =>
          /\ items' = items /\ stock_history' = stock_history
          /\ IF last'.id \in DOMAIN requests /\ last'.failAt = 0
             THEN /\ last'.ok
                  /\ DOMAIN requests' = DOMAIN requests \ {last'.id}
                  /\ \A r \in DOMAIN requests' : requests'[r] = requests[r]
                  /\ LinesOf(request_items', last'.id) = <<>>
                  /\ \A r \in DOMAIN requests' :
                        LinesOf(request_items', r) = LinesOf(request_items, r)
                  /\ Len(request_items') =
                        Len(request_items) - Len(LinesOf(request_items, last'.id))
             ELSE /\ ~last'.ok
                  /\ requests' = requests
                  /\ request_items' = request_items]_vars

\* an approved request was deleted: its line and the request are gone, the
\* entry of its deduction is there and the item still has the deducted quantity
C22_Witness ==
    /\ last.op = "deleteRequest" /\ last.ok
    /\ last.id \notin DOMAIN requests
    /\ LinesOf(request_items, last.id) = <<>>
    /\ Len(History) = 1
    /\ History[1].notes = ApprovedNote(last.id)
    /\ History[1].quantity_after < History[1].quantity_before
    /\ items[History[1].item_id].quantity = History[1].quantity_after

(***************************************************************************)
(* C23: an approval computes each line's new quantity from the quantity    *)
(* the item has when the line is processed: a request with two lines for   *)
(* one item, of quantities a and b against stock q, leaves the item at     *)
(* max(0, max(0, q - a) - b), and the second entry's quantity_before is    *)
(* the first entry's quantity_after.                                       *)
(***************************************************************************)
\* request id has two lines, both for the same item
TwoLinesOneItem(id) ==
    /\ Len(LinesOf(Lines, id)) = 2
    /\ Cardinality(ItemsOf(id)) = 1
    /\ \A k \in 1..2 : LinesOf(Lines, id)[k].item_id # NULL

C23_LinesAreAppliedInSequence ==
    [][(Approved /\ TwoLinesOneItem(last'.id)) =>
          LET lines == LinesOf(Lines, last'.id)
              i == lines[1].item_id
              n == Len(History)
          IN /\ \/ items'[i].quantity =
                      Max(0, Max(0, items[i].quantity - lines[1].quantity) - lines[2].quantity)
                \/ items'[i].quantity =
                      Max(0, Max(0, items[i].quantity - lines[2].quantity) - lines[1].quantity)
             /\ Len(History') = n + 2
             /\ History'[n + 2].quantity_before = History'[n + 1].quantity_after]_vars

(***************************************************************************)
(* C24: a PUT on an id that resolves to no item answers not-found and      *)
(* changes no item and no stock_history entry; a PUT whose body has none   *)
(* of the updatable fields changes no item and appends no entry: either is *)
(* answered after the SELECT, and no other statement of the call follows.  *)
(***************************************************************************)
C24_PutOfNothingChangesNothing ==
    [][\A c \in Clients, id \in ItemIds, body \in PutBodies :
          PutSelect(c, id, body) =>
             /\ id \notin 1..Len(items) =>
                   /\ clients'[c].pc = "done" /\ StockUnchanged
                   /\ last' = Call("putItem", id, "", FALSE, 0) /\ calls' = calls + 1
             /\ DOMAIN body \cap UpdatableFields = {} =>
                   /\ clients'[c].pc = "done" /\ StockUnchanged
                   /\ last'.op = "putItem" /\ last'.id = id /\ calls' = calls + 1]_vars

\* a PUT on an id that names no item was refused while the store held an
\* item and an entry
C24_Witness ==
    /\ last.op = "putItem" /\ ~last.ok /\ last.failAt = 0
    /\ last.id = Len(items) + 1
    /\ items # <<>>
    /\ History # <<>>

(***************************************************************************)
(* C25: the status GET /api/items and GET /api/items/:id compute on read   *)
(* is the status an approval stores for the same quantity and minQuantity, *)
(* for every quantity >= 0 and every minQuantity >= 0 or missing.          *)
(***************************************************************************)
C25_ReadStatusIsStoredStatus ==
    \A i \in 1..Len(items) :
       items[i].quantity >= 0 =>
          /\ GetItem(Committed, i).item.status =
                itemStatus(items[i].quantity, items[i].minQuantity)
          /\ \A row \in GetItems(Committed) :
                row.id = i => row.status = itemStatus(items[i].quantity, items[i].minQuantity)

\* an approval left an item at quantity = minQuantity > 0 and stored
\* 'low-stock'; GET /api/items/:id then answered 'low-stock'
C25_Witness ==
    /\ last.op = "getItem" /\ last.ok
    /\ requests[1].status = "approved"
    /\ Len(History) = 1
    /\ items[last.id].quantity = items[last.id].minQuantity
    /\ items[last.id].quantity > 0
    /\ items[last.id].status = "low-stock"
    /\ last.status = "low-stock"

(***************************************************************************)
(* C26: every PATCH /api/requests/:id/status call and every POST           *)
(* /api/requests call that begins a transaction ends it with one COMMIT or *)
(* one ROLLBACK, never both and never neither, and releases its client     *)
(* once on every path, the paths of failure among them.  A COMMIT that     *)
(* throws ends nothing: the ROLLBACK of the catch is to end that           *)
(* transaction.  A handler whose pool.connect() threw has taken no client  *)
(* and has none to release.                                                *)
(***************************************************************************)
\* the number of times x is in the log
Count(log, x) == Cardinality({k \in 1..Len(log) : log[k] = x})

C26_TransactionsEndOnce ==
    \A c \in Clients :
       LET log == clients[c].log IN
       /\ Count(log, "COMMIT") + Count(log, "ROLLBACK") <= 1
       /\ Count(log, "release") <= 1
       /\ Running(clients[c]) =>
             /\ Count(log, "release") = 0
             /\ Count(log, "COMMIT") + Count(log, "ROLLBACK") = 0
       /\ clients[c].pc \in {"done", "rejected"} =>
             /\ Count(log, "connect") = 0 => log = <<"connect failed">>
             /\ Count(log, "connect") = 1 =>
                   /\ Count(log, "release") = 1
                   /\ log[Len(log)] = "release"
             /\ Count(log, "BEGIN") = 1 =>
                   /\ Count(log, "COMMIT") + Count(log, "ROLLBACK") = 1
                   /\ clients[c].ok <=> Count(log, "COMMIT") = 1

(***************************************************************************)
(* C27: over any sequence of status changes, the lines of a request are    *)
(* deducted on each change from a status other than 'approved' to          *)
(* 'approved' and at no other time: a request moved approved -> pending    *)
(* -> approved is deducted again, and the 'request' entries it has         *)
(* produced number its lines times such changes.  Stated of every call:    *)
(* such a change adds one entry per line, any other call adds none and     *)
(* leaves the items.                                                       *)
(***************************************************************************)
\* the 'request' entries in sh that the approvals of request id produced
EntriesOf(sh, id) ==
    Cardinality({k \in 1..Len(sh) :
                   sh[k].change_type = "request" /\ sh[k].notes = ApprovedNote(id)})

C27_DeductedOnEachChangeToApproved ==
    [][Patched =>
          IF Approved
          THEN /\ EntriesOf(History', last'.id) =
                     EntriesOf(History, last'.id) + Len(LinesOf(Lines, last'.id))
               /\ Len(History') = Len(History) + Len(LinesOf(Lines, last'.id))
          ELSE StockUnchanged]_vars

(***************************************************************************)
(* C28: in every committed state a request whose status is 'approved' has, *)
(* for each of its lines, a 'request' entry for the item of the line whose *)
(* note names the request.                                                 *)
(***************************************************************************)
C28_ApprovedHasItsEntries ==
    \A r \in DOMAIN requests :
       requests[r].status = "approved" =>
          \A j \in 1..Len(LinesOf(Lines, r)) :
             \E k \in 1..Len(History) :
                /\ History[k].item_id = LinesOf(Lines, r)[j].item_id
                /\ History[k].change_type = "request"
                /\ History[k].notes = ApprovedNote(r)

(***************************************************************************)
(* C29: for every item that has an entry in stock_history, quantity_after  *)
(* of its latest entry is the stored quantity of the item, whenever no     *)
(* handler is in the middle of its statements: after any sequence of PUT   *)
(* /api/items/:id updates and approvals that succeed, and after a PUT and  *)
(* an approval on the same item whose statements interleave.               *)
(***************************************************************************)
\* the places of the entries of item i in stock_history
EntriesOfItem(i) == {k \in 1..Len(History) : History[k].item_id = i}

\* the latest entry of item i, which has one
LatestEntry(i) ==
    History[CHOOSE k \in EntriesOfItem(i) : \A j \in EntriesOfItem(i) : j <= k]

C29_LatestEntryIsStoredQuantity ==
    Quiet =>
       \A i \in 1..Len(items) :
          EntriesOfItem(i) # {} => LatestEntry(i).quantity_after = items[i].quantity

(***************************************************************************)
(* C30: a request that POST /api/requests creates starts in status         *)
(* 'pending', and no statement of the call changes an item or appends a    *)
(* stock_history entry, whatever quantities its lines request.             *)
(***************************************************************************)
C30_CreatedPendingStockUntouched ==
    [][\A c \in Clients :
          (Step(c) /\ clients'[c].op = "postRequest") =>
             /\ items' = items /\ stock_history' = stock_history
             /\ \A r \in DOMAIN requests : r \in DOMAIN requests' /\ requests'[r] = requests[r]
             /\ \A r \in DOMAIN requests' \ DOMAIN requests : requests'[r].status = "pending"
             /\ (clients'[c].pc = "done" /\ clients'[c].ok) =>
                   clients[c].id \in DOMAIN requests' \ DOMAIN requests]_vars

\* a request for 5 of an item stored at 3 was created: it is pending, the
\* item is as it was created and stock_history is empty
C30_Witness ==
    /\ last.op = "postRequest" /\ last.ok
    /\ last.id \in DOMAIN requests /\ requests[last.id].status = "pending"
    /\ stock_history = <<>>
    /\ \E k \in 1..Len(Lines) :
          /\ Lines[k].request_id = last.id
          /\ Lines[k].quantity = 5
          /\ items[Lines[k].item_id] = ItemRow(3, 2, "in-stock", 1)

====
